---- MODULE Spec2Model ----
(***************************************************************************)
(* Model of the payments handler of PD-Payments-Center                     *)
(* (netlify/functions/payments.js).  The repository holds seven snapshots  *)
(* of the same handler: three concatenated in                               *)
(* src/netlify/functions/payments.js, two in src/unnamed/part_000, one in  *)
(* src/unnamed/part_001 and one in src/unnamed/part_002.  The variable     *)
(* `variant` says which snapshot is deployed; every operation below is     *)
(* translated snapshot by snapshot.                                        *)
(*                                                                         *)
(* Money is counted in integer cents.  A JavaScript number is a record     *)
(* [nan, c, u]: NaN, or the binary64 value that is the decimal c/100       *)
(* (u = 0, the double a decimal literal parses to), or a double lying just *)
(* below (u = -1) or just above (u = 1) that one.  The u component keeps   *)
(* the outcome of the inexact binary64 operations the handler performs;    *)
(* u = 2 and u = -2 stand for Infinity and -Infinity.                      *)
(***************************************************************************)
EXTENDS Integers, Sequences, FiniteSets, TLC

VARIABLES
  variant,             \* the deployed snapshot of the handler
  env,                 \* process.env: which credentials are configured
  crm,                 \* the CRM (HubSpot): the deals and the contact it holds
  contactEmailGlobal,  \* module-level `let contactEmailGlobal`
  pc,                  \* position of the invocation in flight
  req,                 \* query parameters of the invocation in flight
  calc,                \* locals of the balance calculation of that invocation
  deals,               \* locals of the e-mail lookup: the contact's deals read so far
  crmCalls,            \* CRM requests issued by that invocation, in order
  crmReplies,          \* res.ok of the replies to them, in order
  stripeCalls,         \* stripe.checkout.sessions.create payloads it submitted
  stripeReplies,       \* whether each of these calls returned a session
  resp,                \* the response it returned
  lastCheckout,        \* history: the previous resolved checkout and its outcome
  other                \* a second invocation of the same process, suspended at an await

vars == <<variant, env, crm, contactEmailGlobal, pc, req, calc, deals,
          crmCalls, crmReplies, stripeCalls, stripeReplies, resp,
          lastCheckout, other>>

(***************************************************************************)
(* The seven snapshots.                                                    *)
(***************************************************************************)
V1  == "payments.js#1"   \* src/netlify/functions/payments.js lines 1-703
V2  == "payments.js#2"   \* src/netlify/functions/payments.js lines 704-1450
V3  == "payments.js#3"   \* src/netlify/functions/payments.js lines 1451-1917
P0A == "part_000#1"      \* src/unnamed/part_000 lines 1-262
P0B == "part_000#2"      \* src/unnamed/part_000 lines 263-617
P1  == "part_001"        \* src/unnamed/part_001
P2  == "part_002"        \* src/unnamed/part_002

Variants == {V1, V2, V3, P0A, P0B, P1, P2}

(***************************************************************************)
(* Raw values: what a CRM property or a query parameter can hold.          *)
(***************************************************************************)
Undefined == [k |-> "undefined", v |-> 0]   \* property missing from the object
Null      == [k |-> "null", v |-> 0]        \* null (unset property, absent parameter)
EmptyStr  == [k |-> "empty", v |-> 0]       \* the string ""
Text      == [k |-> "text", v |-> 0]        \* a string that is no number, e.g. "abc"
Dec(c)    == [k |-> "dec", v |-> c]         \* the decimal string for c cents, e.g. "250.18"
InfStr(s) == [k |-> "inf", v |-> s]         \* the string "Infinity" (s = 1) or "-Infinity" (s = -1)

Falsy(raw) == raw.k \in {"undefined", "null", "empty"}

\* An absent query parameter: URLSearchParams.get returns null.
NULL == "<null>"

(***************************************************************************)
(* JavaScript numbers.                                                     *)
(***************************************************************************)
NaN  == [nan |-> TRUE, c |-> 0, u |-> 0]
N(c) == [nan |-> FALSE, c |-> c, u |-> 0]

\* Infinity (s = 1) and -Infinity (s = -1): numbers that are not NaN
JsInfinity(s) == [nan |-> FALSE, c |-> 0, u |-> 2 * s]

isNaN(x) == x.nan

isInfinite(x) == ~x.nan /\ x.u \in {2, -2}

\* x < y, x > y, x <= y on numbers: every comparison with NaN is false.
Less(x, y) ==
  /\ ~x.nan /\ ~y.nan
  /\ IF isInfinite(x) \/ isInfinite(y)
     THEN x # y /\ (x = JsInfinity(-1) \/ y = JsInfinity(1))
     ELSE \/ x.c < y.c
          \/ x.c = y.c /\ x.u < y.u

Greater(x, y) == Less(y, x)

LessEq(x, y) == ~x.nan /\ ~y.nan /\ ~Less(y, x)

Sign(n) == IF n > 0 THEN 1 ELSE IF n < 0 THEN -1 ELSE 0

\* Operand pairs <<a, b>> (cents) of the model's amounts whose binary64
\* difference is not the double of the decimal difference:
\* 1000 - 250.18 evaluates to 749.8199999999999, below 749.82.
\* and 7500.01 - 7500 evaluates to 0.010000000000218279, above 0.01.
FloatSubBelow == {<<100000, 25018>>}
FloatSubAbove == {<<750001, 750000>>}

\* a - b
Sub(a, b) ==
  IF a.nan \/ b.nan THEN NaN
  ELSE IF isInfinite(a) THEN (IF a = b THEN NaN ELSE a)     \* Infinity - Infinity is NaN
  ELSE IF isInfinite(b) THEN JsInfinity(-(b.u \div 2))
  ELSE [nan |-> FALSE,
        c   |-> a.c - b.c,
        u   |-> IF <<a.c, b.c>> \in FloatSubBelow THEN -1
                ELSE IF <<a.c, b.c>> \in FloatSubAbove THEN 1
                ELSE Sign(a.u - b.u)]

\* a + b, for the sums of whole amounts the handler forms
Add(a, b) ==
  IF a.nan \/ b.nan THEN NaN
  ELSE IF isInfinite(a)
       THEN (IF isInfinite(b) /\ a # b THEN NaN ELSE a)     \* Infinity + -Infinity is NaN
  ELSE IF isInfinite(b) THEN b
  ELSE [nan |-> FALSE, c |-> a.c + b.c, u |-> Sign(a.u + b.u)]

\* Math.max(0, x): NaN if x is NaN
MathMax0(x) == IF x.nan THEN NaN ELSE IF Less(x, N(0)) THEN N(0) ELSE x

\* Number(val)
Number(raw) ==
  CASE raw.k = "undefined" -> NaN
    [] raw.k = "null"      -> N(0)
    [] raw.k = "empty"     -> N(0)
    [] raw.k = "text"      -> NaN
    [] raw.k = "dec"       -> N(raw.v)
    [] raw.k = "inf"       -> JsInfinity(raw.v)

\* function safeNumber(val) of the snapshots that test for null, undefined and ""
safeNumberGuarded(raw) == IF Falsy(raw) THEN NaN ELSE Number(raw)

\* function safeNumber(val) of the snapshots that only call Number(val)
safeNumberPlain(raw) == Number(raw)

\* function num(v) of part_000
num(raw) == Number(raw)

\* The numeric coercion each snapshot applies to CRM fields and to `amount`.
toNumber(v, raw) ==
  CASE v \in {V1, P1, P2} -> safeNumberGuarded(raw)
    [] v \in {V2, V3}     -> safeNumberPlain(raw)
    [] v \in {P0A, P0B}   -> num(raw)

(***************************************************************************)
(* Program constants.                                                      *)
(***************************************************************************)
APP_FEE == 25000                      \* const APP_FEE = 250 (USD), in cents
DEPOSIT_TARGET == 250000              \* const DEPOSIT_TARGET = 2500
DEPOSIT_BUTTON_HIDE_AT_PAID == 225000 \* const DEPOSIT_BUTTON_HIDE_AT_PAID = 2250
FEE_NUM == 207                        \* base + base * 0.035 = base * 207 / 200
FEE_DEN == 200
NUM_PAYMENT_FIELDS == 5               \* PAYMENT_FIELDS.length

PAYMENT_FIELDS == 1..NUM_PAYMENT_FIELDS

(***************************************************************************)
(* Itemized payment slots.  A slot is absent (undefined, null, "") or a    *)
(* string "amount, txn, date"; `a` is its first comma-separated part after *)
(* trim() and `n` the number of parts.                                     *)
(***************************************************************************)
NoSlot(k) == [k |-> k, a |-> EmptyStr, n |-> 0]
Csv(a, n) == [k |-> "csv", a |-> a, n |-> n]

SlotFalsy(slot) == slot.k \in {"undefined", "null", "empty"}

\* parts[i] || "" (V1, P1) or parts[i] (the other snapshots)
Part(v, slot, i, name) ==
  IF slot.n >= i THEN name
  ELSE IF v \in {V1, P1} THEN "" ELSE "<undefined>"

\* The forEach over PAYMENT_FIELDS from slot i on.
RECURSIVE parseFrom(_, _, _)
parseFrom(v, slots, i) ==
  IF i > Len(slots) THEN <<>>
  ELSE LET slot   == slots[i]
           amount == toNumber(v, slot.a)
           rest   == parseFrom(v, slots, i + 1)
       IN  IF SlotFalsy(slot) THEN rest
           ELSE IF v \in {V1, P1} /\ Falsy(slot.a) THEN rest
           ELSE IF ~isNaN(amount)
                THEN <<[amount |-> amount,
                        txn    |-> Part(v, slot, 2, "txn"),
                        date   |-> Part(v, slot, 3, "date")]>> \o rest
                ELSE rest

\* function parsePayments(p), and the same loop inlined in the other snapshots
parsePayments(v, p) == parseFrom(v, p.payments, 1)

\* payments.reduce((s, pay) => s + pay.amount, 0)
RECURSIVE SumAmounts(_)
SumAmounts(payments) ==
  IF payments = <<>> THEN N(0)
  ELSE Add(Head(payments).amount, SumAmounts(Tail(payments)))

(***************************************************************************)
(* Balance calculation.                                                    *)
(***************************************************************************)
\* totalPaid: the rollup field if it coerces to a number, else the itemized sum
TotalPaid(v, p) ==
  LET field == toNumber(v, p.total_amount_paid)
  IN  IF ~isNaN(field) THEN field ELSE SumAmounts(parsePayments(v, p))

\* remaining = tuition - totalPaid (NaN when tuition is NaN)
Remaining(v, p) ==
  LET tuition   == toNumber(v, p.amount)
      totalPaid == TotalPaid(v, p)
  IN  IF v \in {V1, P1, P2}
      THEN IF ~isNaN(tuition) /\ ~isNaN(totalPaid)
           THEN Sub(tuition, totalPaid) ELSE NaN
      ELSE Sub(tuition, totalPaid)

\* DEPOSIT_TARGET - totalPaid without Math.max(0, .), and
\* depositRemaining = Math.max(0, 2500 - totalPaid)
DepositRemainingUnclamped(v, p) == Sub(N(DEPOSIT_TARGET), TotalPaid(v, p))
DepositRemaining(v, p) == MathMax0(Sub(N(DEPOSIT_TARGET), TotalPaid(v, p)))

(***************************************************************************)
(* Payment type resolution and surcharge.                                  *)
(***************************************************************************)
Reject(status, msg) ==
  [ok |-> FALSE, status |-> status, msg |-> msg,
   base |-> NaN, label |-> "", ptype |-> ""]

Accept(base, label, ptype) ==
  [ok |-> TRUE, status |-> 0, msg |-> "", base |-> base, label |-> label,
   ptype |-> ptype]

\* metadata.paymentType: `type || "remaining"`, the reassigned `type` of
\* payments.js#2, or no metadata at all
PaymentType(v, type) ==
  CASE v \in {V1, V3}  -> "<none>"
    [] v = V2          -> IF type \in {"appfee", "deposit", "custom"}
                          THEN type ELSE "remaining"
    [] OTHER           -> IF type = NULL THEN "remaining" ELSE type

\* remaining + 0.01; -250.18 + 0.01 evaluates below -250.17
FloatAddCentBelow == {-25018}

AddCent(x) ==
  IF x.nan THEN NaN
  ELSE IF isInfinite(x) THEN x
  ELSE [nan |-> FALSE, c |-> x.c + 1,
        u |-> IF x.c \in FloatAddCentBelow THEN -1 ELSE x.u]

\* The test that rejects a custom amount above the remaining balance.
ExceedsRemaining(v, amt, remaining) ==
  CASE v = V2  -> Greater(amt, AddCent(remaining))        \* amt > remaining + 0.01
    [] v = P2  -> Greater(Sub(amt, remaining), N(1))      \* amt - remaining > 0.01
    [] v = P1  -> ~isNaN(remaining) /\ Greater(amt, remaining)
    [] OTHER   -> Greater(amt, remaining)                 \* amt > remaining

\* The branch `type === "custom"`.
ResolveCustom(v, amount, remaining) ==
  LET amt == toNumber(v, amount)
  IN  IF v \in {P0A, P0B}
      THEN IF Less(amt, N(APP_FEE)) \/ ExceedsRemaining(v, amt, remaining)
           THEN Reject(400, "invalid amount")
           ELSE Accept(amt, "Custom Payment", PaymentType(v, "custom"))
      ELSE IF isNaN(amt) THEN Reject(400, "invalid amount")
      ELSE IF Less(amt, N(APP_FEE)) THEN Reject(400, "below minimum")
      ELSE IF ExceedsRemaining(v, amt, remaining)
           THEN Reject(400, "exceeds remaining")
      ELSE Accept(amt, "Custom Payment", PaymentType(v, "custom"))

\* The if / else-if chain over `type`.
ResolveType(v, type, amount, remaining, depositRemaining) ==
  IF v = V1
  THEN Accept(remaining, "Program payment", PaymentType(v, type))
  ELSE IF type = "appfee"
       THEN Accept(N(APP_FEE), "Application Fee", PaymentType(v, type))
  ELSE IF type = "deposit"
       THEN Accept(depositRemaining, "Program Deposit", PaymentType(v, type))
  ELSE IF type = "custom" /\ v # V3
       THEN ResolveCustom(v, amount, remaining)
  ELSE Accept(remaining,
              IF v = P0A THEN "Remaining Balance" ELSE "Remaining Program Balance",
              PaymentType(v, type))

\* The final test on the base amount before the surcharge, and the test of
\* a process that would refuse every checkout after its first one.
NoBalanceDueAfterFirst(v, base) ==
  \/ lastCheckout.outcome.kind # "none"    \* a process that pays out only once
  \/ isNaN(base) \/ LessEq(base, N(0))
NoBalanceDue(v, base) ==
  CASE v \in {V2, P0A, P0B} -> LessEq(base, N(0))                \* base <= 0
    [] v = P1               -> base = N(0) \/ isNaN(base) \/ LessEq(base, N(0))
    [] OTHER                -> isNaN(base) \/ LessEq(base, N(0))

\* The checkout branch from the balance to the accepted base amount.
Resolve(v, p, type, amount) ==
  LET remaining == Remaining(v, p)
      r == ResolveType(v, type, amount, remaining, DepositRemaining(v, p))
  IN  IF v = P2 /\ isNaN(remaining) THEN Reject(400, "unknown balance")
      ELSE IF ~r.ok THEN r
      ELSE IF NoBalanceDue(v, r.base) THEN Reject(400, "no balance due")
      ELSE r

\* Whole-dollar bases up to 1000.00 for which the binary64 evaluation of
\* (base + base * 0.035) * 100 falls below the half-cent tie it equals in
\* decimal: 265 gives 27427.499999999996.
FloatTieBelow ==
  {100, 7700, 12900, 13700, 14500, 15300, 24900, 26500, 28100, 28300, 29900,
   31500, 50500, 52300, 53700, 54100, 55500, 57300, 58700, 59100, 60500,
   62300, 99900}

\* unit_amount: Math.round((base + base * 0.035) * 100)
UnitAmount(base) ==
  IF base.nan THEN NaN
  ELSE IF isInfinite(base) THEN base
  ELSE LET x == base.c * FEE_NUM
           q == x \div FEE_DEN
           r == x % FEE_DEN
           below == base.u < 0 \/ (base.u = 0 /\ base.c \in FloatTieBelow)
       IN  N(IF 2 * r > FEE_DEN THEN q + 1
             ELSE IF 2 * r < FEE_DEN THEN q
             ELSE IF below THEN q ELSE q + 1)

\* The argument of stripe.checkout.sessions.create.
SessionPayload(v, r, acc) ==
  [unit_amount    |-> UnitAmount(acc.base),
   base           |-> acc.base,
   label          |-> acc.label,
   customer_email |-> IF r.email = NULL THEN "<undefined>" ELSE r.email,
   cancel_dealId  |-> r.dealId,
   cancel_email   |-> IF v = P0A
                      THEN IF r.email = NULL THEN "null" ELSE r.email
                      ELSE IF r.email = NULL THEN "<absent>" ELSE r.email,
   meta_dealId    |-> IF v \in {V1, V3} THEN "<none>" ELSE r.dealId,
   paymentType    |-> acc.ptype]

(***************************************************************************)
(* The CRM, the requests and the initial state.                            *)
(***************************************************************************)
MaxFilledSlots == 2   \* slots beyond this one are absent in the modelled deals

NoSlots == [i \in PAYMENT_FIELDS |-> NoSlot("undefined")]

\* data.properties || {} of a deal the CRM does not hold
NoProperties ==
  [amount |-> Undefined, total_amount_paid |-> Undefined, payments |-> NoSlots]

TuitionInputs == {Undefined, Null, EmptyStr, Text, Dec(100000), Dec(1000000)}

PaidInputs ==
  {Undefined, Null, EmptyStr, Text, Dec(0), Dec(25018), Dec(250000), Dec(1000000)}

SlotInputs ==
  {NoSlot("undefined"), Csv(Text, 3), Csv(EmptyStr, 3), Csv(Dec(50000), 3),
   Csv(Dec(50000), 1)}

SlotSeqs ==
  {ps \in [PAYMENT_FIELDS -> SlotInputs] :
     /\ \A i \in PAYMENT_FIELDS : i > MaxFilledSlots => ps[i] = NoSlot("undefined")
     /\ \A i \in PAYMENT_FIELDS : i > 1 /\ i <= MaxFilledSlots =>
          ps[i] \in {NoSlot("undefined"), Csv(Dec(50000), 1)}}

\* Every tuition with every rollup field and no itemized slot, and every
\* filling of the slots with the rollup fields that let the slots count or not.
DealInputs ==
  [amount : TuitionInputs, total_amount_paid : PaidInputs, payments : {NoSlots}]
    \cup
  [amount : {Dec(1000000)},
   total_amount_paid : {Undefined, Null, EmptyStr, Text, Dec(250000)},
   payments : SlotSeqs]

DefaultDeal ==
  [amount |-> Dec(1000000), total_amount_paid |-> Dec(250000), payments |-> NoSlots]

DealIds == {"d1", "d2"}      \* the deals the CRM holds
MissingDealId == "d9"        \* an id the CRM holds no deal for
ContactEmail == "a@x.org"    \* the e-mail of the one contact the CRM holds
OtherEmail == "b@x.org"      \* an e-mail no contact has

AssocInputs == {<<>>, <<"d1">>, <<"d1", "d2">>}

AmountInputs ==
  {Null, Text, Dec(10000), Dec(25000), Dec(26500), Dec(74982), Dec(750000),
   Dec(750001), Dec(800000)}

\* The values of the checkout parameter: absent, "1", and another value.
CheckoutInputs == {NULL, "1", "0"}

\* checkout === "1", and the test of a handler that takes any value for it
IsCheckoutAnyValue(r) == r.checkout # NULL
IsCheckout(r) == r.checkout = "1"

TypeInputs == {NULL, "appfee", "deposit", "remaining", "custom", "bogus"}

Requests ==
  {r \in [email : {NULL, ContactEmail, OtherEmail},
          dealId : {NULL, "d1", MissingDealId},
          checkout : CheckoutInputs,
          type : TypeInputs,
          amount : AmountInputs] :
     /\ ~IsCheckout(r) => r.type = NULL
     /\ r.type # "custom" => r.amount = Null
     /\ r.email = OtherEmail => ~IsCheckout(r)}

NoRequest ==
  [email |-> NULL, dealId |-> NULL, checkout |-> NULL, type |-> NULL,
   amount |-> Null]

NoCalc ==
  [flow |-> "none", dealId |-> NULL, email |-> NULL, tuition |-> NaN,
   totalPaid |-> NaN, remaining |-> NaN, hasDeposit |-> FALSE,
   depositRemaining |-> NaN, payments |-> <<>>, links |-> {}]

NoResponse == [status |-> 0, kind |-> "none", msg |-> ""]

\* No checkout has been resolved by this process yet.
NoOutcome ==
  [kind |-> "none", status |-> 0, unit_amount |-> NaN, label |-> "",
   meta_dealId |-> NULL, paymentType |-> ""]

NoCheckout == [dealId |-> NULL, type |-> NULL, amount |-> Null, outcome |-> NoOutcome]

\* The locals of an invocation that has not started.
IdleInvocation ==
  [pc |-> "idle", req |-> NoRequest, calc |-> NoCalc, deals |-> <<>>,
   crmCalls |-> <<>>, crmReplies |-> <<>>, stripeCalls |-> <<>>,
   stripeReplies |-> <<>>, resp |-> NoResponse]

AllConfigured == [hubspotToken |-> TRUE, stripeKey |-> TRUE]

Init ==
  /\ variant \in Variants
  /\ \/ /\ env = AllConfigured
        /\ \E d \in DealInputs :
             crm = [deals |-> [id \in DealIds |-> IF id = "d1" THEN d ELSE DefaultDeal],
                    assoc |-> <<"d1">>]
     \/ /\ env \in [hubspotToken : BOOLEAN, stripeKey : BOOLEAN]
        /\ \E a \in AssocInputs :
             crm = [deals |-> [id \in DealIds |-> DefaultDeal], assoc |-> a]
  /\ contactEmailGlobal = NULL
  /\ pc = "idle"
  /\ req = NoRequest
  /\ calc = NoCalc
  /\ deals = <<>>
  /\ crmCalls = <<>>
  /\ crmReplies = <<>>
  /\ stripeCalls = <<>>
  /\ stripeReplies = <<>>
  /\ resp = NoResponse
  /\ lastCheckout = NoCheckout
  /\ other = IdleInvocation

(***************************************************************************)
(* The handler.  One invocation is in flight at a time; it advances from   *)
(* one await to the next, and an external reply resumes it.                *)
(***************************************************************************)
\* return textResponse(...) / htmlResponse(...)
Return(status, kind, msg) ==
  /\ resp' = [status |-> status, kind |-> kind, msg |-> msg]
  /\ pc' = "done"

\* A rejected await: the catch of exports.handler answers 500, except in
\* part_000#1, whose handler returns handleStripeCheckout(...) without await,
\* so that a rejection in the checkout leaves the handler uncaught.
Throw(inCheckout) ==
  IF variant = P0A /\ inCheckout
  THEN Return(0, "uncaught", "exception")
  ELSE Return(500, "text", "unexpected error")

\* The payment links and the custom-amount entry renderDealPortal puts on the
\* page: "appfee", "deposit", "remaining" are the links ?checkout=1&type=...,
\* "custom" is the entry for an amount of the payer's choice.
Links(v, p) ==
  LET totalPaid    == TotalPaid(v, p)
      remaining    == Remaining(v, p)
      showAppFee   == totalPaid = N(0)                       \* totalPaid === 0
      showDeposit  == /\ Greater(totalPaid, N(0))            \* totalPaid > 0 &&
                      /\ Less(totalPaid, N(DEPOSIT_BUTTON_HIDE_AT_PAID))
      hasRemaining == Greater(remaining, N(0))               \* remaining > 0
  IN  CASE v = V1 ->
             \* !isNaN(remaining) && remaining > 0.01 && !isNaN(totalWithFee)
             IF Greater(remaining, N(1)) THEN {"remaining"} ELSE {}
        [] v = V3 ->
             (IF showAppFee THEN {"appfee"} ELSE {})
               \cup (IF showDeposit THEN {"deposit"} ELSE {})
               \cup {"remaining"}
        [] v \in {V2, P2} ->
             (IF showAppFee THEN {"appfee"} ELSE {})
               \cup (IF showDeposit /\ hasRemaining THEN {"deposit"} ELSE {})
               \cup (IF hasRemaining THEN {"remaining", "custom"} ELSE {})
        [] OTHER ->
             (IF showAppFee THEN {"appfee"} ELSE {})
               \cup (IF showDeposit THEN {"deposit"} ELSE {})
               \cup (IF hasRemaining THEN {"remaining", "custom"} ELSE {})

\* The locals of the balance calculation, as the checkout or the portal computes them.
Balance(v, flow, id, email, p) ==
  [flow |-> flow, dealId |-> id, email |-> email,
   tuition |-> toNumber(v, p.amount),
   totalPaid |-> TotalPaid(v, p),
   remaining |-> Remaining(v, p),
   hasDeposit |-> /\ v # V1
                  /\ ~(v = P2 /\ flow = "checkout" /\ isNaN(Remaining(v, p))),
   depositRemaining |-> DepositRemaining(v, p),
   payments |-> parsePayments(v, p),
   links |-> IF flow = "summary" THEN Links(v, p) ELSE {}]

\* function renderDealPortal(deal), answered with status 200
renderDealPortal(id, email, p) ==
  /\ calc' = Balance(variant, "summary", id, email, p)
  /\ Return(200, "portal", "")

\* The credential tests at the head of the handler and of the checkout:
\* the message of the 500 response, or "" when the request may go on.
\* (First the tests without the one on STRIPE_SECRET_KEY.)
MissingCredentialCrmOnly(r) ==
  IF ~env.hubspotToken THEN "hubspot token missing" ELSE ""
MissingCredential(r) ==
  IF ~env.hubspotToken THEN "hubspot token missing"
  ELSE IF IsCheckout(r) /\ ~env.stripeKey THEN "stripe key missing"
  ELSE ""

\* exports.handler up to its first await
handler(r) ==
  /\ pc = "idle"
  /\ req' = r
  /\ contactEmailGlobal' =
       IF variant \in {V1, V2, V3, P2} THEN r.email ELSE contactEmailGlobal
  /\ calc' = NoCalc
  /\ deals' = <<>>
  /\ crmReplies' = <<>>
  /\ stripeCalls' = <<>>
  /\ stripeReplies' = <<>>
  /\ IF MissingCredential(r) # ""
     THEN Return(500, "text", MissingCredential(r)) /\ crmCalls' = <<>>
     ELSE IF IsCheckout(r)
     THEN IF r.dealId = NULL
          THEN Return(400, "text", "missing dealId") /\ crmCalls' = <<>>
          ELSE /\ crmCalls' = <<"getDealById">>
               /\ pc' = "checkout:getDealById"
               /\ resp' = NoResponse
     ELSE IF variant = P0B /\ r.dealId = NULL
     THEN Return(400, "text", "missing dealId") /\ crmCalls' = <<>>
     ELSE IF variant = P0A /\ r.email = NULL /\ r.dealId = NULL
     THEN Return(400, "text", "missing email") /\ crmCalls' = <<>>
     ELSE IF r.dealId # NULL
     THEN /\ crmCalls' = <<"getDealById">>
          /\ pc' = "page:getDealById"
          /\ resp' = NoResponse
     ELSE IF r.email = NULL
     THEN Return(400, "html", "missing email") /\ crmCalls' = <<>>
     ELSE /\ crmCalls' = <<"findContactByEmail">>
          /\ pc' = "page:findContactByEmail"
          /\ resp' = NoResponse
  /\ UNCHANGED <<other, lastCheckout, variant, env, crm>>

\* getDealById returns null for a reply without id, except in part_000,
\* where it returns { id: data.id, properties: data.properties || {} }.
getDealByIdIsNull(v, id) == id \notin DealIds /\ v \notin {P0A, P0B}

Properties(id) == IF id \in DealIds THEN crm.deals[id] ELSE NoProperties

\* The CRM after hubSpotFetch(path, options) has been answered.  The helpers
\* send four requests: POST /crm/v3/objects/contacts/search, GET
\* /crm/v4/objects/contacts/{id}/associations/deals, POST
\* /crm/v3/objects/deals/batch/read and GET /crm/v3/objects/deals/{id}; each
\* is a read.  (First a fetch that would write the rollup field back.)
hubSpotFetchWritingBack(c, call) ==
  IF call = "getDealById"
  THEN [c EXCEPT !.deals = [d \in DOMAIN c.deals |->
                              [c.deals[d] EXCEPT !.total_amount_paid = Dec(0)]]]
  ELSE c
hubSpotFetch(c, call) == c

\* The checkout branch from the reply of getDealById to sessions.create.
handleStripeCheckout(ok) ==
  /\ pc = "checkout:getDealById"
  /\ crmReplies' = Append(crmReplies, ok)
  /\ crm' = hubSpotFetch(crm, "getDealById")
  /\ IF ~ok
     THEN Throw(TRUE) /\ UNCHANGED <<calc, stripeCalls>>
     ELSE IF getDealByIdIsNull(variant, req.dealId)
     THEN Return(404, "text", "deal not found") /\ UNCHANGED <<calc, stripeCalls>>
     ELSE LET p   == Properties(req.dealId)
              acc == Resolve(variant, p, req.type, req.amount)
          IN  /\ calc' = Balance(variant, "checkout", req.dealId, req.email, p)
              /\ IF acc.ok
                 THEN /\ stripeCalls' = <<SessionPayload(variant, req, acc)>>
                      /\ pc' = "checkout:sessions.create"
                      /\ UNCHANGED resp
                 ELSE Return(acc.status, "text", acc.msg) /\ UNCHANGED stripeCalls
  /\ UNCHANGED <<other, lastCheckout, stripeReplies, variant, env, contactEmailGlobal, req, deals, crmCalls>>

\* The reply of stripe.checkout.sessions.create: a session with its url, or
\* a rejection.  A unit_amount that is no integer is never accepted.
sessionsCreateReply(ok) ==
  /\ pc = "checkout:sessions.create"
  /\ ok => (~isNaN(stripeCalls[1].unit_amount) /\ ~isInfinite(stripeCalls[1].unit_amount))
  /\ stripeReplies' = Append(stripeReplies, ok)
  /\ IF ok THEN Return(302, "redirect", "session.url") ELSE Throw(TRUE)
  /\ UNCHANGED <<other, lastCheckout, variant, env, crm, contactEmailGlobal, req, calc, deals,
                 crmCalls, crmReplies, stripeCalls>>

\* deal.properties.email as the page mode sets it before rendering
PortalEmail(v, email) ==
  IF v = P1 THEN (IF email = NULL THEN "" ELSE email) ELSE email

\* Page mode with a dealId: from the reply of getDealById to the portal.
pageDealById(ok) ==
  /\ pc = "page:getDealById"
  /\ crmReplies' = Append(crmReplies, ok)
  /\ crm' = hubSpotFetch(crm, "getDealById")
  /\ IF ~ok
     THEN Throw(FALSE) /\ UNCHANGED calc
     ELSE IF getDealByIdIsNull(variant, req.dealId)
     THEN /\ Return(404, IF variant = P1 THEN "html" ELSE "text", "deal not found")
          /\ UNCHANGED calc
     ELSE renderDealPortal(req.dealId, PortalEmail(variant, req.email),
                           Properties(req.dealId))
  /\ UNCHANGED <<other, lastCheckout, stripeReplies, variant, env, contactEmailGlobal, req, deals, crmCalls,
                 stripeCalls>>

\* Page mode with an e-mail: the reply of findContactByEmail.
findContactByEmailReply(ok) ==
  /\ pc = "page:findContactByEmail"
  /\ crmReplies' = Append(crmReplies, ok)
  /\ crm' = hubSpotFetch(crm, "findContactByEmail")
  /\ IF ~ok
     THEN Throw(FALSE) /\ UNCHANGED crmCalls
     ELSE IF req.email # ContactEmail
     THEN Return(404, "html", "no account found") /\ UNCHANGED crmCalls
     ELSE /\ crmCalls' = Append(crmCalls, "associations")
          /\ pc' = "page:associations"
          /\ UNCHANGED resp
  /\ UNCHANGED <<other, lastCheckout, stripeReplies, variant, env, contactEmailGlobal, req, calc, deals,
                 stripeCalls>>

\* getDealsForContact: the reply of the associations request.
associationsReply(ok) ==
  /\ pc = "page:associations"
  /\ crmReplies' = Append(crmReplies, ok)
  /\ crm' = hubSpotFetch(crm, "associations")
  /\ IF ~ok
     THEN Throw(FALSE) /\ UNCHANGED <<crmCalls, deals>>
     ELSE IF crm.assoc = <<>>
     THEN Return(404, "html", "no programs found") /\ UNCHANGED <<crmCalls, deals>>
     ELSE /\ deals' = crm.assoc
          /\ crmCalls' = Append(crmCalls, "batch/read")
          /\ pc' = "page:batch/read"
          /\ UNCHANGED resp
  /\ UNCHANGED <<other, lastCheckout, stripeReplies, variant, env, contactEmailGlobal, req, calc, stripeCalls>>

\* The e-mail getDealsForContact puts on the deals it returns.
DealsEmail(v) == IF v \in {P0A, P1} THEN req.email ELSE contactEmailGlobal

\* getDealsForContact: the reply of the batch read, then the portal of the
\* only deal or the selection page.
batchReadReply(ok) ==
  /\ pc = "page:batch/read"
  /\ crmReplies' = Append(crmReplies, ok)
  /\ crm' = hubSpotFetch(crm, "batchRead")
  /\ IF ~ok
     THEN Throw(FALSE) /\ UNCHANGED calc
     ELSE IF Len(deals) = 1
     THEN renderDealPortal(deals[1],
                           IF variant \in {P0A, P1} THEN DealsEmail(variant)
                           ELSE req.email,
                           Properties(deals[1]))
     ELSE /\ calc' = [NoCalc EXCEPT !.flow = "selection", !.email = DealsEmail(variant)]
          /\ Return(200, "selection", "")
  /\ UNCHANGED <<other, lastCheckout, stripeReplies, variant, env, contactEmailGlobal, req, deals, crmCalls,
                 stripeCalls>>

\* What a resolved checkout came to: the status of its rejection, or the
\* charge, label and metadata of the session it requested.
Outcome ==
  IF stripeCalls = <<>>
  THEN [NoOutcome EXCEPT !.kind = "rejected", !.status = resp.status]
  ELSE [kind |-> "session", status |-> 0,
        unit_amount |-> stripeCalls[1].unit_amount,
        label       |-> stripeCalls[1].label,
        meta_dealId |-> stripeCalls[1].meta_dealId,
        paymentType |-> stripeCalls[1].paymentType]

\* The invocation has returned its response; its locals are gone, the
\* module-level state stays for the next invocation.
EndInvocation(record) ==
  /\ pc = "done"
  /\ pc' = "idle"
  /\ req' = NoRequest
  /\ calc' = NoCalc
  /\ deals' = <<>>
  /\ crmCalls' = <<>>
  /\ crmReplies' = <<>>
  /\ stripeCalls' = <<>>
  /\ stripeReplies' = <<>>
  /\ resp' = NoResponse
  /\ lastCheckout' =
       IF record /\ calc.flow = "checkout"
       THEN [dealId |-> req.dealId, type |-> req.type, amount |-> req.amount,
             outcome |-> Outcome]
       ELSE lastCheckout
  /\ UNCHANGED <<other, variant, env, crm, contactEmailGlobal>>

invocationEnds == EndInvocation(FALSE)

\* The same step, keeping the history of the checkout that ended.
invocationEndsRecorded == EndInvocation(TRUE)

Next ==
  \/ \E r \in Requests : handler(r)
  \/ \E ok \in BOOLEAN : handleStripeCheckout(ok)
  \/ \E ok \in BOOLEAN : sessionsCreateReply(ok)
  \/ \E ok \in BOOLEAN : pageDealById(ok)
  \/ \E ok \in BOOLEAN : findContactByEmailReply(ok)
  \/ \E ok \in BOOLEAN : associationsReply(ok)
  \/ \E ok \in BOOLEAN : batchReadReply(ok)
  \/ invocationEnds

Spec == Init /\ [][Next]_vars

(***************************************************************************)
(* Two invocations in flight in one process.  Each runs from one await to  *)
(* the next without interruption; at an await the event loop may resume    *)
(* the other one.  The module-level state (contactEmailGlobal) is shared,  *)
(* the locals are not.                                                     *)
(***************************************************************************)
\* The event loop leaves the invocation in flight at its await (or before it
\* has started, or after it has returned) and resumes the other one.
resumeOther ==
  /\ other' = [pc |-> pc, req |-> req, calc |-> calc, deals |-> deals,
               crmCalls |-> crmCalls, crmReplies |-> crmReplies,
               stripeCalls |-> stripeCalls, stripeReplies |-> stripeReplies,
               resp |-> resp]
  /\ pc' = other.pc
  /\ req' = other.req
  /\ calc' = other.calc
  /\ deals' = other.deals
  /\ crmCalls' = other.crmCalls
  /\ crmReplies' = other.crmReplies
  /\ stripeCalls' = other.stripeCalls
  /\ stripeReplies' = other.stripeReplies
  /\ resp' = other.resp
  /\ UNCHANGED <<variant, env, crm, contactEmailGlobal, lastCheckout>>

InitConcurrent ==
  /\ Init
  /\ env = AllConfigured
  /\ crm.deals = [id \in DealIds |-> DefaultDeal]

\* The requests the two invocations are started with: page requests and
\* checkouts of the remaining balance.
ConcurrentRequests ==
  {r \in Requests : r.checkout # "0" /\ r.type \in {NULL, "remaining"}}

NextConcurrent ==
  \/ \E r \in ConcurrentRequests : handler(r)
  \/ \E ok \in BOOLEAN : handleStripeCheckout(ok)
  \/ \E ok \in BOOLEAN : sessionsCreateReply(ok)
  \/ \E ok \in BOOLEAN : pageDealById(ok)
  \/ \E ok \in BOOLEAN : findContactByEmailReply(ok)
  \/ \E ok \in BOOLEAN : associationsReply(ok)
  \/ \E ok \in BOOLEAN : batchReadReply(ok)
  \/ invocationEnds
  \/ resumeOther

SpecConcurrent == InitConcurrent /\ [][NextConcurrent]_vars

(***************************************************************************)
(* The handler serving one request after another with the history of the   *)
(* previous checkout kept, over a few deals.                               *)
(***************************************************************************)
PairDeals ==
  {[amount |-> Dec(1000000), total_amount_paid |-> Dec(250000), payments |-> NoSlots],
   [amount |-> Dec(100000), total_amount_paid |-> Dec(25018), payments |-> NoSlots],
   [amount |-> Undefined, total_amount_paid |-> Undefined, payments |-> NoSlots]}

InitPair ==
  /\ Init
  /\ env = AllConfigured
  /\ crm.deals["d1"] \in PairDeals
  /\ crm.assoc = <<"d1">>

NextPair ==
  \/ \E r \in Requests : handler(r)
  \/ \E ok \in BOOLEAN : handleStripeCheckout(ok)
  \/ \E ok \in BOOLEAN : sessionsCreateReply(ok)
  \/ \E ok \in BOOLEAN : pageDealById(ok)
  \/ \E ok \in BOOLEAN : findContactByEmailReply(ok)
  \/ \E ok \in BOOLEAN : associationsReply(ok)
  \/ \E ok \in BOOLEAN : batchReadReply(ok)
  \/ invocationEndsRecorded

SpecPair == InitPair /\ [][NextPair]_vars

(***************************************************************************)
(* The handler over deals whose fields hold the strings "Infinity" and     *)
(* "-Infinity", which Number() turns into numbers that are not NaN.        *)
(***************************************************************************)
InfiniteSlots(a, b) ==
  [i \in PAYMENT_FIELDS |->
     IF i = 1 THEN Csv(a, 3) ELSE IF i = 2 THEN Csv(b, 3) ELSE NoSlot("undefined")]

ExtremeDeals ==
  {DefaultDeal,
   [amount |-> Dec(1000000), total_amount_paid |-> Undefined,
    payments |-> InfiniteSlots(InfStr(1), InfStr(-1))],
   [amount |-> Dec(1000000), total_amount_paid |-> Undefined,
    payments |-> InfiniteSlots(InfStr(1), Dec(50000))],
   [amount |-> InfStr(1), total_amount_paid |-> InfStr(1), payments |-> NoSlots],
   [amount |-> Dec(1000000), total_amount_paid |-> InfStr(1), payments |-> NoSlots]}

InitExtreme ==
  /\ variant \in Variants
  /\ env = AllConfigured
  /\ \E d \in ExtremeDeals :
       crm = [deals |-> [id \in DealIds |-> IF id = "d1" THEN d ELSE DefaultDeal],
              assoc |-> <<"d1">>]
  /\ contactEmailGlobal = NULL
  /\ pc = "idle"
  /\ req = NoRequest
  /\ calc = NoCalc
  /\ deals = <<>>
  /\ crmCalls = <<>>
  /\ crmReplies = <<>>
  /\ stripeCalls = <<>>
  /\ stripeReplies = <<>>
  /\ resp = NoResponse
  /\ lastCheckout = NoCheckout
  /\ other = IdleInvocation

SpecExtreme == InitExtreme /\ [][Next]_vars

(***************************************************************************)
(* Vocabulary of the properties.                                           *)
(***************************************************************************)
\* The snapshots whose checkout has a branch for type=custom.
CustomVariants == {V2, P0A, P0B, P1, P2}

\* The checkout has read the deal and resolved the request.
CheckoutResolved == calc.flow = "checkout"

\* The handler has computed the balance of a deal, for a checkout or a summary.
BalanceComputed == calc.flow \in {"checkout", "summary"}

\* The checkout has ended with status 400 and has submitted nothing to the
\* payment collaborator (while it waits for the collaborator it has not).
RejectedWith400 ==
  /\ stripeCalls = <<>>
  /\ pc = "done" => resp.status = 400

\* Tuition and rollup total are both decimal numbers in the CRM.
DecimalBalance(p) == p.amount.k = "dec" /\ p.total_amount_paid.k = "dec"

\* tuition - totalPaid in cents, for such a deal
DecimalRemaining(p) == p.amount.v - p.total_amount_paid.v

\* The sum in cents of the itemized slots whose amount is a decimal number.
RECURSIVE ItemizedSum(_, _)
ItemizedSum(slots, i) ==
  IF i > Len(slots) THEN 0
  ELSE (IF slots[i].k = "csv" /\ slots[i].a.k = "dec" THEN slots[i].a.v ELSE 0)
       + ItemizedSum(slots, i + 1)

(***************************************************************************)
(* C1.  In a checkout of type custom, a requested amount above the deal's  *)
(* remaining balance (tuition minus totalPaid), by any margin down to one  *)
(* cent, is rejected with status 400 and no checkout session is created.   *)
(***************************************************************************)
C1_CustomAboveRemainingRejected ==
  ( /\ variant \in CustomVariants
    /\ CheckoutResolved
    /\ req.type = "custom"
    /\ req.amount.k = "dec"
    /\ DecimalBalance(Properties(req.dealId))
    /\ req.amount.v > DecimalRemaining(Properties(req.dealId)) )
  => RejectedWith400

(***************************************************************************)
(* C2.  No checkout session is requested unless the resolved base amount   *)
(* is a positive finite number: whatever the payment type, a base that is  *)
(* zero, negative or NaN ends the checkout with status 400 and the payment *)
(* collaborator is not called.                                             *)
(***************************************************************************)
C2_SessionOnlyForPositiveBase ==
  /\ \A i \in DOMAIN stripeCalls : Greater(stripeCalls[i].base, N(0))
  /\ CheckoutResolved =>
       LET r == ResolveType(variant, req.type, req.amount, calc.remaining,
                            calc.depositRemaining)
       IN  (r.ok /\ ~Greater(r.base, N(0))) => RejectedWith400

(***************************************************************************)
(* C3.  For a fully paid deal (totalPaid equal to tuition, remaining       *)
(* balance zero) every checkout attempt, whatever its type, is rejected    *)
(* and creates no checkout session.                                        *)
(***************************************************************************)
C3_FullyPaidDealRejectsEveryType ==
  ( /\ CheckoutResolved
    /\ DecimalBalance(Properties(req.dealId))
    /\ DecimalRemaining(Properties(req.dealId)) = 0 )
  => RejectedWith400

(***************************************************************************)
(* C4.  A checkout of type custom whose amount is missing, is not a number *)
(* or is below the 250.00 minimum is rejected with status 400 and creates  *)
(* no checkout session.                                                    *)
(***************************************************************************)
C4_CustomInvalidAmountRejected ==
  ( /\ variant \in CustomVariants
    /\ CheckoutResolved
    /\ req.type = "custom"
    /\ \/ req.amount.k \in {"null", "text"}
       \/ req.amount.k = "dec" /\ req.amount.v < 25000 )
  => RejectedWith400

(***************************************************************************)
(* C5.  totalPaid is the deal's total_amount_paid when that field is       *)
(* present and numeric; when it is missing, null, empty or not a number,   *)
(* totalPaid is the sum of the itemized slots that parse.  The checkout    *)
(* and the summary compute it by the same rule.                            *)
(***************************************************************************)
C5_TotalPaidRollupElseItemized ==
  BalanceComputed =>
    LET p == Properties(calc.dealId)
    IN  calc.totalPaid =
          N(IF p.total_amount_paid.k = "dec" THEN p.total_amount_paid.v
            ELSE ItemizedSum(p.payments, 1))

(***************************************************************************)
(* C6.  The remaining balance is tuition minus totalPaid when the tuition  *)
(* is numeric, and the unknown sentinel (NaN) when the tuition is missing, *)
(* null, empty or unparsable: an unknown tuition is never taken as zero.   *)
(***************************************************************************)
C6_RemainingUnknownWithoutTuition ==
  BalanceComputed =>
    LET p == Properties(calc.dealId)
    IN  IF p.amount.k = "dec"
        THEN ~isNaN(calc.totalPaid) =>
               /\ ~isNaN(calc.remaining)
               /\ calc.remaining.c = p.amount.v - calc.totalPaid.c
        ELSE isNaN(calc.remaining)

(***************************************************************************)
(* C7.  For every accepted checkout the unit amount submitted to the       *)
(* payment collaborator is, in cents, base * 1.035 rounded half-up to the  *)
(* nearest cent (250.00 gives 25875, 7500.00 gives 776250).                *)
(***************************************************************************)
C7_UnitAmountHalfUp ==
  \A i \in DOMAIN stripeCalls :
    LET base == stripeCalls[i].base
    IN  ~isNaN(base) =>
          stripeCalls[i].unit_amount = N((base.c * 1035 + 500) \div 1000)

(***************************************************************************)
(* C8.  A checkout of type custom with a numeric remaining balance and     *)
(* 250.00 <= amount <= remaining is accepted: exactly one checkout session *)
(* is requested, its base is the requested amount and its label is         *)
(* 'Custom Payment'.                                                       *)
(***************************************************************************)
C8_CustomWithinRemainingAccepted ==
  ( /\ variant \in CustomVariants
    /\ CheckoutResolved
    /\ req.type = "custom"
    /\ req.amount.k = "dec"
    /\ req.amount.v >= 25000
    /\ DecimalBalance(Properties(req.dealId))
    /\ req.amount.v <= DecimalRemaining(Properties(req.dealId)) )
  => /\ Len(stripeCalls) = 1
     /\ stripeCalls[1].base = N(req.amount.v)
     /\ stripeCalls[1].label = "Custom Payment"

(***************************************************************************)
(* C9.  In the checkout and in the summary alike, the deposit shortfall is *)
(* max(0, 2500.00 - totalPaid): it is never negative and it is zero        *)
(* whenever totalPaid is at least 2500.00.                                 *)
(***************************************************************************)
C9_DepositShortfallClamped ==
  (BalanceComputed /\ calc.hasDeposit) =>
    /\ ~Less(calc.depositRemaining, N(0))
    /\ ~isNaN(calc.totalPaid) =>
         /\ ~isNaN(calc.depositRemaining)
         /\ calc.depositRemaining.c =
              (IF calc.totalPaid.c >= 250000 THEN 0
               ELSE 250000 - calc.totalPaid.c)

\* The summary of a deal on which more than the deposit target has been paid.
C9_Witness ==
  /\ calc.flow = "summary"
  /\ calc.hasDeposit
  /\ Greater(calc.totalPaid, N(250000))
  /\ calc.depositRemaining = N(0)

(***************************************************************************)
(* C10.  When the CRM holds no deal for the dealId of the request, the     *)
(* checkout and the summary both answer 404 and no checkout session is     *)
(* created.                                                                *)
(***************************************************************************)
C10_MissingDealAnswers404 ==
  (req.dealId = MissingDealId /\ crmReplies = <<TRUE>>)
  => /\ stripeCalls = <<>>
     /\ resp.status = 404

(***************************************************************************)
(* C11.  The payment type resolver maps appfee to base 250.00 with label   *)
(* 'Application Fee', deposit to the deposit shortfall with label          *)
(* 'Program Deposit', custom to the requested amount with label 'Custom    *)
(* Payment', and an absent or unrecognized type to the remaining balance   *)
(* with label 'Remaining Program Balance'; nothing else is produced.       *)
(* payments.js#1 has no resolver and is left out; in payments.js#3, which  *)
(* has no custom branch, custom counts as unrecognized.                    *)
(***************************************************************************)
C11_ResolverTable ==
  \A i \in DOMAIN stripeCalls :
    variant # V1 =>
      LET s == stripeCalls[i]
      IN  CASE req.type = "appfee" ->
                 s.base = N(25000) /\ s.label = "Application Fee"
            [] req.type = "deposit" ->
                 s.base = calc.depositRemaining /\ s.label = "Program Deposit"
            [] req.type = "custom" /\ variant # V3 ->
                 /\ s.base = toNumber(variant, req.amount)
                 /\ s.label = "Custom Payment"
            [] OTHER ->
                 /\ s.base = calc.remaining
                 /\ s.label = "Remaining Program Balance"

(***************************************************************************)
(* C12.  In the summary the application-fee link is rendered if and only   *)
(* if totalPaid is 0, the deposit link if and only if 0 < totalPaid <      *)
(* 2250.00, and the remaining-balance link if and only if the remaining    *)
(* balance is positive; when the remaining balance is zero, negative or    *)
(* unknown there is no remaining-balance link and no custom-amount entry.  *)
(* payments.js#1, which knows no payment types, is left out.               *)
(***************************************************************************)
C12_SummaryLinks ==
  (calc.flow = "summary" /\ variant # V1) =>
    LET positive == ~isNaN(calc.remaining) /\ Greater(calc.remaining, N(0))
    IN  /\ "appfee" \in calc.links <=> calc.totalPaid = N(0)
        /\ "deposit" \in calc.links <=>
             (Greater(calc.totalPaid, N(0)) /\ Less(calc.totalPaid, N(225000)))
        /\ "remaining" \in calc.links <=> positive
        /\ ~positive => "custom" \notin calc.links

(***************************************************************************)
(* C13.  Two checkout requests with the same dealId, type and amount       *)
(* against an unchanged deal come to the same outcome: both are rejected   *)
(* with the same status, or both request a session with the same charge,   *)
(* label and metadata, whatever requests the process handled in between    *)
(* and whatever e-mail they carry.  (Both reads of the deal succeed.)      *)
(***************************************************************************)
SameRequestAsLast ==
  /\ lastCheckout # NoCheckout
  /\ lastCheckout.dealId = req.dealId
  /\ lastCheckout.type = req.type
  /\ lastCheckout.amount = req.amount

\* The checkout in flight has been resolved: it waits for the collaborator
\* or has returned its rejection.
OutcomeKnown ==
  /\ CheckoutResolved
  /\ pc = "done" \/ stripeCalls # <<>>

C14_CancelUrlKeepsDealAndEmail ==
  (pc = "done" /\ resp.kind = "redirect") =>
    /\ stripeCalls[1].cancel_dealId = req.dealId
    /\ stripeCalls[1].cancel_email =
         (IF req.email = NULL THEN "<absent>" ELSE req.email)

(***************************************************************************)
(* C15.  When the CRM credential is not configured every request ends with *)
(* a 500 response and no CRM or checkout call is made; when the payment    *)
(* credential is not configured every checkout request ends with a 500     *)
(* response and no CRM or checkout call is made.                           *)
(***************************************************************************)
C15_MissingCredentialAnswers500 ==
  ( /\ pc # "idle"
    /\ ~env.hubspotToken \/ (~env.stripeKey /\ req.checkout = "1") )
  => /\ pc = "done"
     /\ resp.status = 500
     /\ crmCalls = <<>>
     /\ stripeCalls = <<>>

\* A checkout without dealId on a process without the payment credential:
\* the credential is tested before the parameters.
C15_Witness ==
  /\ env.hubspotToken /\ ~env.stripeKey
  /\ req.checkout = "1"
  /\ req.dealId = NULL
  /\ pc = "done"
  /\ resp.status = 500

(***************************************************************************)
(* C16.  When a CRM call or the creation of the checkout session returns a *)
(* non-success result, the request ends with a generic 500 response: the   *)
(* failed call is not retried, no later external call is made in that      *)
(* request, and no checkout session is requested after a CRM failure.      *)
(***************************************************************************)
CrmCallFailed == \E i \in DOMAIN crmReplies : ~crmReplies[i]

SessionCreateFailed ==
  pc = "done" /\ stripeCalls # <<>> /\ resp.kind # "redirect"

C16_UpstreamFailureAnswers500 ==
  /\ CrmCallFailed =>
       /\ pc = "done"
       /\ resp.status = 500
       /\ Len(crmCalls) = Len(crmReplies)
       /\ ~crmReplies[Len(crmReplies)]
       /\ stripeCalls = <<>>
  /\ SessionCreateFailed =>
       /\ resp.status = 500
       /\ Len(stripeCalls) = 1

(***************************************************************************)
(* C17.  Without checkout: a request with a dealId reads that deal and     *)
(* never looks up the contact; a request with neither dealId nor e-mail    *)
(* gets 400; a request with only an e-mail looks up the contact and gets   *)
(* 404 when no contact matches, 404 when the contact has no deals, the     *)
(* balance summary when it has exactly one deal and the selection page     *)
(* when it has more than one.  (The CRM calls succeed.)                    *)
(***************************************************************************)
PageRequest == pc # "idle" /\ req.checkout # "1" /\ env.hubspotToken

C17_PageFlow ==
  PageRequest =>
    /\ req.dealId # NULL =>
         /\ crmCalls[1] = "getDealById"
         /\ \A i \in DOMAIN crmCalls : crmCalls[i] # "findContactByEmail"
    /\ (req.dealId = NULL /\ req.email = NULL) =>
         /\ pc = "done" /\ resp.status = 400 /\ crmCalls = <<>>
    /\ (req.dealId = NULL /\ req.email # NULL) =>
         /\ crmCalls # <<>> /\ crmCalls[1] = "findContactByEmail"
         /\ (pc = "done" /\ ~CrmCallFailed) =>
              IF req.email # ContactEmail THEN resp.status = 404
              ELSE IF crm.assoc = <<>> THEN resp.status = 404
              ELSE IF Len(crm.assoc) = 1
                   THEN resp.status = 200 /\ resp.kind = "portal"
              ELSE resp.status = 200 /\ resp.kind = "selection"

(***************************************************************************)
(* C18.  A checkout session is created only by a request whose checkout    *)
(* parameter is exactly "1" and that the handler has not rejected: the     *)
(* credentials are configured, the dealId is given, the deal has been      *)
(* read and the resolver has accepted the request.  A redirect is returned *)
(* if and only if the creation of the session succeeded in that request;   *)
(* it is the 302 whose Location is the url of the session, with an empty   *)
(* body.  A request without checkout=1 never creates a session.            *)
(***************************************************************************)
SessionCreated == \E i \in DOMAIN stripeReplies : stripeReplies[i]

paymentRows(payments) ==
  [i \in DOMAIN payments |->
     [amount |-> payments[i].amount,
      date   |-> IF payments[i].date = "<undefined>" THEN "" ELSE payments[i].date,
      txn    |-> IF payments[i].txn = "<undefined>" THEN "" ELSE payments[i].txn]]

\* The rows of the slots from slot i on whose amount field is a decimal
\* number, a part the slot does not have being the empty string.
RECURSIVE RowsOfParsableSlots(_, _)
RowsOfParsableSlots(slots, i) ==
  IF i > Len(slots) THEN <<>>
  ELSE (IF slots[i].k = "csv" /\ slots[i].a.k = "dec"
        THEN <<[amount |-> N(slots[i].a.v),
                date   |-> IF slots[i].n >= 3 THEN "date" ELSE "",
                txn    |-> IF slots[i].n >= 2 THEN "txn" ELSE ""]>>
        ELSE <<>>)
       \o RowsOfParsableSlots(slots, i + 1)

(***************************************************************************)
(* C19.  Each of the five itemized slots is parsed on its own: a slot that *)
(* is missing, or whose leading amount field is empty or not a number,     *)
(* yields no payment record and no row of the payment history, every other *)
(* slot yields one record whatever its neighbours hold, and a transaction  *)
(* id or a date the slot does not have is rendered as the empty string.    *)
(***************************************************************************)
C19_SlotsParsedIndependently ==
  BalanceComputed =>
    paymentRows(calc.payments) =
      RowsOfParsableSlots(Properties(calc.dealId).payments, 1)

(***************************************************************************)
(* C20.  No request, successful or failed, changes the CRM: no step of the *)
(* handler, whatever the CRM or the payment processor answers, alters a    *)
(* deal's tuition, total-paid or itemized payment fields (or the contact   *)
(* and its associations), so they are the same after any sequence of       *)
(* requests as before it.                                                  *)
(***************************************************************************)
C20_CrmNeverWritten == [][crm' = crm]_vars

\* An e-mail lookup whose three CRM requests were all answered and which
\* rendered the portal of the contact's only deal.
C20_Witness ==
  /\ pc = "done"
  /\ req.email = ContactEmail
  /\ crmReplies = <<TRUE, TRUE, TRUE>>
  /\ resp.kind = "portal"

(***************************************************************************)
(* C21.  When two requests with different e-mail parameters interleave,    *)
(* each response carries only the e-mail of the request that produced it:  *)
(* the e-mail in the links of a deal-selection page and of a balance       *)
(* summary is that of its own request, or none at all, never the other     *)
(* request's.                                                              *)
(***************************************************************************)
C21_ResponseCarriesOwnEmail ==
  (pc = "done" /\ resp.kind \in {"selection", "portal"}) =>
     calc.email \in {req.email, "", NULL}

(***************************************************************************)
(* C22.  With the credentials configured, the checkout applies its checks  *)
(* in a fixed order and the first that fails decides the response: a       *)
(* missing dealId answers 400 before any CRM request; then a deal the CRM  *)
(* does not hold answers 404 before any amount is resolved; then the       *)
(* rejections of the resolver apply; sessions.create is called only after  *)
(* all of them have passed.                                                *)
(***************************************************************************)
C22_CheckoutChecksInOrder ==
  (pc # "idle" /\ req.checkout = "1" /\ env = AllConfigured) =>
    /\ req.dealId = NULL =>
         /\ pc = "done" /\ resp.status = 400
         /\ crmCalls = <<>> /\ stripeCalls = <<>> /\ ~CheckoutResolved
    /\ (req.dealId = MissingDealId /\ crmReplies = <<TRUE>>) =>
         /\ pc = "done" /\ resp.status = 404
         /\ stripeCalls = <<>> /\ ~CheckoutResolved
    /\ CheckoutResolved =>
         LET r == Resolve(variant, Properties(req.dealId), req.type, req.amount)
         IN  /\ ~r.ok => (pc = "done" /\ resp.status = r.status /\ stripeCalls = <<>>)
             /\ r.ok => stripeCalls # <<>>
    /\ stripeCalls # <<>> =>
         /\ req.dealId \in DealIds
         /\ crmReplies = <<TRUE>>
         /\ CheckoutResolved

(***************************************************************************)
(* C23.  Every session submitted to the payment collaborator carries the   *)
(* request's dealId in its metadata and a paymentType that is one of       *)
(* appfee, deposit, remaining, custom and names the rule that produced the *)
(* base amount: the request's type when it is appfee, deposit or custom,   *)
(* and remaining when the type is absent or unrecognized.                  *)
(***************************************************************************)
C23_MetadataNamesDealAndRule ==
  \A i \in DOMAIN stripeCalls :
    /\ stripeCalls[i].meta_dealId = req.dealId
    /\ stripeCalls[i].paymentType =
         IF req.type \in {"appfee", "deposit", "custom"} THEN req.type
         ELSE "remaining"

(***************************************************************************)
(* C24.  When the deal's tuition is not numeric (missing, null, empty or   *)
(* no number), so that the remaining balance is unknown, a checkout of any *)
(* payment type, appfee, deposit, remaining or custom, is rejected with    *)
(* status 400 and no checkout session is created.                          *)
(***************************************************************************)
C24_UnknownTuitionRejectsCheckout ==
  ( /\ CheckoutResolved
    /\ req.dealId \in DealIds
    /\ Properties(req.dealId).amount.k # "dec" )
  => RejectedWith400

(***************************************************************************)
(* C25.  For every accepted checkout, of any payment type, the base amount *)
(* charged before the surcharge is a number that does not exceed the       *)
(* remaining balance of the deal at the time of the request.               *)
(***************************************************************************)
C25_BaseWithinRemaining ==
  \A i \in DOMAIN stripeCalls :
    /\ ~isNaN(stripeCalls[i].base)
    /\ ~isNaN(calc.remaining)
    /\ LessEq(stripeCalls[i].base, calc.remaining)

(***************************************************************************)
(* C26.  Every invocation of the handler ends with a response whose status *)
(* is one of 200, 302, 400, 404, 500 and lets no exception escape,         *)
(* whatever the request and whatever the CRM and the payment collaborator  *)
(* answer: a failed collaborator call and a missing credential answer 500, *)
(* a missing parameter or a refused amount 400, a deal or contact that     *)
(* does not exist 404.                                                     *)
(***************************************************************************)
C26_AlwaysOneStatusResponse ==
  pc = "done" =>
    /\ resp.kind # "uncaught"
    /\ resp.status \in {200, 302, 400, 404, 500}
    /\ (CrmCallFailed \/ SessionCreateFailed \/ MissingCredential(req) # "")
         => resp.status = 500

\* The base amount the summary shows next to a payment link.
DisplayedBase(link) ==
  CASE link = "appfee"    -> N(APP_FEE)
    [] link = "deposit"   -> calc.depositRemaining
    [] link = "remaining" -> calc.remaining

(***************************************************************************)
(* C27.  Every payment link the balance summary renders for a deal         *)
(* (application fee, deposit, remaining balance) is payable: the checkout  *)
(* request the link leads to, made against the unchanged deal, passes the  *)
(* resolver, so that a session is requested, and its base amount is the    *)
(* one the summary shows next to the link.                                 *)
(***************************************************************************)
C27_RenderedLinksArePayable ==
  (pc = "done" /\ resp.kind = "portal") =>
    \A link \in calc.links \ {"custom"} :
      LET r == Resolve(variant, Properties(calc.dealId), link, Null)
      IN  r.ok /\ r.base = DisplayedBase(link)

(***************************************************************************)
(* C28.  In the checkout and in the summary totalPaid is a number for      *)
(* every deal, never the unknown sentinel: it is 0 when total_amount_paid  *)
(* is not numeric and no itemized slot parses.  Hence the deposit          *)
(* shortfall is a number between 0 and 2500.00 whenever totalPaid >= 0,    *)
(* and the remaining balance is unknown only when the tuition is.          *)
(***************************************************************************)
C28_TotalPaidAlwaysNumber ==
  BalanceComputed =>
    LET p == Properties(calc.dealId)
    IN  /\ ~isNaN(calc.totalPaid)
        /\ ( /\ p.total_amount_paid.k \notin {"dec", "inf"}
             /\ \A i \in PAYMENT_FIELDS :
                  ~(p.payments[i].k = "csv" /\ p.payments[i].a.k \in {"dec", "inf"}) )
             => calc.totalPaid = N(0)
        /\ (calc.hasDeposit /\ LessEq(N(0), calc.totalPaid)) =>
             /\ ~isNaN(calc.depositRemaining)
             /\ LessEq(N(0), calc.depositRemaining)
             /\ LessEq(calc.depositRemaining, N(DEPOSIT_TARGET))
        /\ isNaN(calc.remaining) => isNaN(calc.tuition)

====
